---- MODULE Spec2Model ----
(***************************************************************************)
(* Model of the API-gateway token authorizer of the kitchen service        *)
(* (backend/kitchen/src/auth/authorizer.ts): the process-wide key cache    *)
(* (is_cold_start, pems), validate_token, the AuthPolicy builder and       *)
(* lambdaHandler.                                                          *)
(*                                                                         *)
(* JavaScript runs one callback at a time, so the code between two awaits  *)
(* is one atomic step.  The only await that yields while shared state is   *)
(* still to be read or written is `await axios.get(keys_url)`; a request   *)
(* therefore takes one step when the cache is loaded and two steps (up to  *)
(* the fetch, from the response to the end) when it is cold.               *)
(***************************************************************************)
EXTENDS Integers, Sequences, FiniteSets, TLC

VARIABLES
    is_cold_start,  \* authorizer.ts:6
    pems,           \* authorizer.ts:7   own properties of the object: kid -> PEM
    pc,             \* per invocation: "idle", "fetching" (awaiting axios.get),
                    \* "unanswered" (awaiting a response that never comes), "done"
    req,            \* per invocation: the event being handled
    res,            \* per invocation: what the invocation did and how it ended
    published,      \* the key set every fetch of the run returns, where a
                    \* specification fixes one
    builder,        \* an AuthPolicy under construction
    calls,          \* the add calls made on builder that returned, in order
    last            \* the last call made on builder and how it ended

vars == <<is_cold_start, pems, pc, req, res, published, builder, calls, last>>

\* What a request does not touch: the provider and a builder held elsewhere.
outside == <<published, builder, calls, last>>

\* What building a policy does not touch: the key cache and the invocations.
process == <<is_cold_start, pems, pc, req, res, published>>

(***************************** bounds **************************************)
NumProcs == 2        \* invocations that may overlap in one process
MaxKeys == 2         \* entries of one key-set response
MaxDeviation == 2    \* fields in which a token differs from a valid admin token
MaxRules == 2        \* add calls that return on one builder

Procs == 1..NumProcs

(************************* configuration ***********************************)
user_pool_id == "pool-1"
app_client_id == "client-1"
admin_group_name == "admins"

HttpVerb ==
    [GET |-> "GET", POST |-> "POST", PUT |-> "PUT", PATCH |-> "PATCH",
     DELETE |-> "DELETE", HEAD |-> "HEAD", OPTIONS |-> "OPTIONS", ALL |-> "*"]

version == "2012-10-17"

(***************************** AuthPolicy **********************************)
\* String.prototype.toLowerCase on the effect strings that occur.
ToLowerCase(s) ==
    CASE s \in {"Allow", "allow", "ALLOW"} -> "allow"
      [] s \in {"Deny", "deny", "DENY"} -> "deny"
      [] OTHER -> s

\* effect.charAt(0).toUpperCase() + effect.slice(1).toLowerCase()
Capitalize(s) ==
    CASE ToLowerCase(s) = "allow" -> "Allow"
      [] ToLowerCase(s) = "deny" -> "Deny"
      [] OTHER -> s

\* The characters of the class [/.a-zA-Z0-9-*] that the model's paths use.
PathChars == {"/", ".", "a", "b", "Z", "0", "9", "-", "*"}

\* resource.match('^[/.a-zA-Z0-9-*]+$'); a path is a sequence of characters.
MatchesPathRegex(resource) ==
    /\ Len(resource) > 0
    /\ \A i \in 1..Len(resource) : resource[i] \in PathChars

\* The values passed as `conditions`: undefined, an array, a condition block.
Undefined == [kind |-> "undefined"]
EmptyArray == [kind |-> "array", length |-> 0]

\* !curMethod.conditions || curMethod.conditions.length === 0
\* (a condition block is an object without a length property)
NoConditions(conditions) ==
    \/ conditions.kind = "undefined"
    \/ conditions.kind = "array" /\ conditions.length = 0

\* new AuthPolicy(principalId, awsAccountId, restApiId, region, stage)
NewAuthPolicy(principalId, awsAccountId, restApiId, region, stage) ==
    [principalId |-> principalId, awsAccountId |-> awsAccountId,
     restApiId |-> restApiId, region |-> region, stage |-> stage,
     allowMethods |-> <<>>, denyMethods |-> <<>>]

\* `arn:aws:execute-api:${region}:${account}:${api}/${stage}/${verb}/${resource}`
ResourceArn(policy, verb, resource) ==
    [prefix |-> "arn:aws:execute-api", region |-> policy.region,
     account |-> policy.awsAccountId, api |-> policy.restApiId,
     stage |-> policy.stage, verb |-> verb, path |-> resource]

\* resource[0] === '/' ? resource.substring(1) : resource
StripLeadingSlash(resource) ==
    IF Len(resource) > 0 /\ resource[1] = "/" THEN Tail(resource) ELSE resource

\* Mutation: a stored rule replaces the rules of its bucket.
addMethod_replacing(policy, effect, verb, resource, conditions) ==
    IF verb # "*" /\ verb \notin DOMAIN HttpVerb
    THEN [ok |-> FALSE, error |-> "Invalid HTTP verb", policy |-> policy]
    ELSE IF Len(resource) > 0 /\ ~MatchesPathRegex(resource)
    THEN [ok |-> FALSE, error |-> "Invalid resource path", policy |-> policy]
    ELSE LET entry == [resource_arn |->
                           ResourceArn(policy, verb, StripLeadingSlash(resource)),
                       conditions |-> conditions]
         IN  [ok |-> TRUE, error |-> "none",
              policy |->
                 IF ToLowerCase(effect) = "allow"
                 THEN [policy EXCEPT !.allowMethods = <<entry>>]
                 ELSE IF ToLowerCase(effect) = "deny"
                 THEN [policy EXCEPT !.denyMethods = <<entry>>]
                 ELSE policy]

\* addMethod: [ok |-> FALSE, error] when it throws, else the builder after it.
addMethod(policy, effect, verb, resource, conditions) ==
    IF verb # "*" /\ verb \notin DOMAIN HttpVerb
    THEN [ok |-> FALSE, error |-> "Invalid HTTP verb", policy |-> policy]
    ELSE IF Len(resource) > 0 /\ ~MatchesPathRegex(resource)
    THEN [ok |-> FALSE, error |-> "Invalid resource path", policy |-> policy]
    ELSE LET entry == [resource_arn |->
                           ResourceArn(policy, verb, StripLeadingSlash(resource)),
                       conditions |-> conditions]
         IN  [ok |-> TRUE, error |-> "none",
              policy |->
                 IF ToLowerCase(effect) = "allow"
                 THEN [policy EXCEPT !.allowMethods = Append(@, entry)]
                 ELSE IF ToLowerCase(effect) = "deny"
                 THEN [policy EXCEPT !.denyMethods = Append(@, entry)]
                 ELSE policy]

\* allowMethod, denyMethod and the two WithConditions methods (lines 107-121).
allowMethod(policy, verb, resource) ==
    addMethod(policy, "Allow", verb, resource, EmptyArray)

denyMethod(policy, verb, resource) ==
    addMethod(policy, "Deny", verb, resource, EmptyArray)

allowMethodWithConditions(policy, verb, resource, conditions) ==
    addMethod(policy, "Allow", verb, resource, conditions)

denyMethodWithConditions(policy, verb, resource, conditions) ==
    addMethod(policy, "Deny", verb, resource, conditions)

\* Mutation: allowAllMethods passes the name of the wildcard's key.
allowAllMethods_key(policy) == addMethod(policy, "Allow", "ALL", <<"*">>, EmptyArray)

allowAllMethods(policy) == addMethod(policy, "Allow", HttpVerb.ALL, <<"*">>, EmptyArray)

denyAllMethods(policy) == addMethod(policy, "Deny", HttpVerb.ALL, <<"*">>, EmptyArray)

get_empty_statement(effect) ==
    [Action |-> "execute-api:Invoke", Effect |-> Capitalize(effect), Resource |-> <<>>]

\* The conditional statements pushed by the forEach, in order.
RECURSIVE ConditionalStatements(_, _)
ConditionalStatements(effect, methods) ==
    IF methods = <<>> THEN <<>>
    ELSE LET curMethod == Head(methods)
             rest == ConditionalStatements(effect, Tail(methods))
         IN  IF NoConditions(curMethod.conditions) THEN rest
             ELSE <<[Action |-> "execute-api:Invoke",
                     Effect |-> Capitalize(effect),
                     Resource |-> <<curMethod.resource_arn>>,
                     Condition |-> curMethod.conditions]>> \o rest

\* The resources pushed into the shared statement by the forEach, in order.
RECURSIVE MergedResources(_)
MergedResources(methods) ==
    IF methods = <<>> THEN <<>>
    ELSE LET curMethod == Head(methods)
         IN  IF NoConditions(curMethod.conditions)
             THEN <<curMethod.resource_arn>> \o MergedResources(Tail(methods))
             ELSE MergedResources(Tail(methods))

\* Mutation: the statement of an effect is emitted also for an empty bucket.
get_statement_for_effect_unguarded(effect, methods) ==
    ConditionalStatements(effect, methods)
    \o <<[get_empty_statement(effect) EXCEPT !.Resource = MergedResources(methods)]>>

\* Mutation: the shared statement is emitted before the conditional ones.
get_statement_for_effect_merged_first(effect, methods) ==
    IF Len(methods) > 0
    THEN <<[get_empty_statement(effect) EXCEPT !.Resource = MergedResources(methods)]>>
         \o ConditionalStatements(effect, methods)
    ELSE <<>>

get_statement_for_effect(effect, methods) ==
    IF Len(methods) > 0
    THEN ConditionalStatements(effect, methods)
         \o <<[get_empty_statement(effect) EXCEPT !.Resource = MergedResources(methods)]>>
    ELSE <<>>

\* Mutation: build throws as soon as one of the two buckets is empty.
build_either_empty(policy) ==
    IF Len(policy.allowMethods) = 0 \/ Len(policy.denyMethods) = 0
    THEN [ok |-> FALSE, error |-> "No statements defined for the policy"]
    ELSE [ok |-> TRUE, error |-> "none",
          response |->
             [principalId |-> policy.principalId,
              policyDocument |->
                 [Version |-> version,
                  Statement |->
                     get_statement_for_effect("Allow", policy.allowMethods)
                     \o get_statement_for_effect("Deny", policy.denyMethods)]]]

\* build: [ok |-> FALSE, error] when it throws, else the AuthResponse.
build(policy) ==
    IF Len(policy.allowMethods) = 0 /\ Len(policy.denyMethods) = 0
    THEN [ok |-> FALSE, error |-> "No statements defined for the policy"]
    ELSE [ok |-> TRUE, error |-> "none",
          response |->
             [principalId |-> policy.principalId,
              policyDocument |->
                 [Version |-> version,
                  Statement |->
                     get_statement_for_effect("Allow", policy.allowMethods)
                     \o get_statement_for_effect("Deny", policy.denyMethods)]]]

(************************** identity provider ******************************)
Regions == {"us-east-1", "eu-west-1"}
Kids == {"k1", "k2"}

\* const iss = `https://cognito-idp.${region}.amazonaws.com/${user_pool_id}`
Issuer(region) ==
    [scheme |-> "https://cognito-idp", region |-> region, pool |-> user_pool_id]

\* The RSA modulus of the key that the provider behind issuer iss publishes
\* under key identifier kid.
Modulus(iss, kid) == <<iss.region, iss.pool, kid>>

\* One entry of a key-set document served for issuer iss; an entry whose key
\* type jwkToPem does not support is malformed key material.
Jwk(iss, kid, kty) == [kid |-> kid, kty |-> kty, n |-> Modulus(iss, kid), e |-> "AQAB"]

JwkEntries(iss) == {Jwk(iss, kid, kty) : kid \in Kids, kty \in {"RSA", "oct"}}

SeqsUpTo(S, n) == UNION {[1..k -> S] : k \in 0..n}

\* What `await axios.get(keys_url)` can produce: a rejected promise, a body
\* without a keys array, or a key-set document.
Responses(iss) ==
    {[kind |-> "network_error"], [kind |-> "bad_body"]}
    \cup {[kind |-> "document", keys |-> ks] : ks \in SeqsUpTo(JwkEntries(iss), MaxKeys)}

\* jwkToPem({kty, n, e}): throws on key material it cannot convert.
jwkToPem(jwk) ==
    IF jwk.kty = "RSA"
    THEN [ok |-> TRUE, pem |-> [kind |-> "pem", modulus |-> jwk.n, exponent |-> jwk.e]]
    ELSE [ok |-> FALSE, pem |-> [kind |-> "undefined"]]

\* pems[kid] = value
SetProperty(obj, key, value) ==
    [k \in DOMAIN obj \cup {key} |-> IF k = key THEN value ELSE obj[k]]

\* keys.forEach(key => pems[key.kid] = jwkToPem(...)): the entries before a
\* throwing one have been written when the exception leaves the loop.
RECURSIVE PopulatePems(_, _)
PopulatePems(obj, keys) ==
    IF keys = <<>> THEN [ok |-> TRUE, pems |-> obj]
    ELSE LET converted == jwkToPem(Head(keys))
         IN  IF ~converted.ok THEN [ok |-> FALSE, pems |-> obj]
             ELSE PopulatePems(SetProperty(obj, Head(keys).kid, converted.pem),
                               Tail(keys))

\* Property names every object literal inherits from Object.prototype.
ObjectPrototypeKeys == {"constructor"}

\* pems[kid] on the object literal of line 7: an own property, else an
\* inherited one, else undefined.
GetProperty(obj, key) ==
    IF key \in DOMAIN obj THEN obj[key]
    ELSE IF key \in ObjectPrototypeKeys THEN [kind |-> "inherited"]
    ELSE [kind |-> "undefined"]

(******************************* tokens ************************************)
GroupsClaim == "cognito:groups"

\* The payload of a token; groups = <<>> with has_groups FALSE is a payload
\* without the cognito:groups claim.
Payload(iss, token_use, aud, exp, has_groups, groups) ==
    LET base == [iss |-> iss, token_use |-> token_use, sub |-> "user-1",
                 aud |-> aud, exp |-> exp]
    IN  IF has_groups THEN (GroupsClaim :> groups) @@ base ELSE base

\* signed_by: the key identifier of the provider key (of the issuer named in
\* the payload) that signed header and payload, or "forged".
Token(kid, iss, token_use, aud, exp, has_groups, groups, signed_by) ==
    [wellformed |-> TRUE, header |-> [kid |-> kid],
     payload |-> Payload(iss, token_use, aud, exp, has_groups, groups),
     signed_by |-> signed_by]

MalformedToken ==
    [wellformed |-> FALSE, header |-> [kid |-> "none"],
     payload |-> [iss |-> "none"], signed_by |-> "forged"]

\* jwt.decode(token, {complete: true}): null for a string that is not a token.
jwt_decode(token) ==
    IF token.wellformed
    THEN [null |-> FALSE, header |-> token.header, payload |-> token.payload]
    ELSE [null |-> TRUE]

\* Mutation: the claims are checked but the signature is not.
jwt_verify_unsigned(token, pem, issuer, audience) ==
    IF /\ token.wellformed
       /\ pem.kind = "pem"
       /\ token.payload.exp = "future"
       /\ token.payload.aud = audience
       /\ token.payload.iss = issuer
    THEN [ok |-> TRUE, payload |-> token.payload]
    ELSE [ok |-> FALSE]

\* jwt.verify(token, pem, {issuer, audience}): signature against the key,
\* then expiry, audience and issuer; returns the payload or throws.
jwt_verify(token, pem, issuer, audience) ==
    IF /\ token.wellformed
       /\ pem.kind = "pem"
       /\ token.signed_by \in Kids
       /\ pem.modulus = Modulus(token.payload.iss, token.signed_by)
       /\ token.payload.exp = "future"
       /\ token.payload.aud = audience
       /\ token.payload.iss = issuer
    THEN [ok |-> TRUE, payload |-> token.payload]
    ELSE [ok |-> FALSE]

(**************************** validate_token *******************************)
ValidateFailure(error, verify_called) ==
    [ok |-> FALSE, error |-> error, verify_called |-> verify_called,
     claims |-> [sub |-> "none"]]

\* Mutation: the token purpose is checked before the issuer.
ValidateDecoded_purpose_first(token, region, obj) ==
    LET iss == Issuer(region)
        decodedJwt == jwt_decode(token)
    IN  IF decodedJwt.null
        THEN ValidateFailure("Invalid JWT token", FALSE)
        ELSE IF decodedJwt.payload.token_use # "access"
        THEN ValidateFailure("not an access token", FALSE)
        ELSE IF decodedJwt.payload.iss # iss
        THEN ValidateFailure("Invalid issuer", FALSE)
        ELSE LET kid == decodedJwt.header.kid
                 pem == GetProperty(obj, kid)
             IN  IF pem.kind = "undefined"
                 THEN ValidateFailure("invalid access token", FALSE)
                 ELSE LET verified == jwt_verify(token, pem, iss, app_client_id)
                      IN  IF verified.ok
                          THEN [ok |-> TRUE, error |-> "none",
                                verify_called |-> TRUE,
                                claims |-> verified.payload]
                          ELSE ValidateFailure("Verification error", TRUE)

\* validate_token from line 165 on: decode, issuer, token_use, key lookup,
\* verify; obj is the pems object as it is when line 165 is reached.
ValidateDecoded(token, region, obj) ==
    LET iss == Issuer(region)
        decodedJwt == jwt_decode(token)
    IN  IF decodedJwt.null
        THEN ValidateFailure("Invalid JWT token", FALSE)
        ELSE IF decodedJwt.payload.iss # iss
        THEN ValidateFailure("Invalid issuer", FALSE)
        ELSE IF decodedJwt.payload.token_use # "access"
        THEN ValidateFailure("not an access token", FALSE)
        ELSE LET kid == decodedJwt.header.kid
                 pem == GetProperty(obj, kid)
             IN  IF pem.kind = "undefined"
                 THEN ValidateFailure("invalid access token", FALSE)
                 ELSE LET verified == jwt_verify(token, pem, iss, app_client_id)
                      IN  IF verified.ok
                          THEN [ok |-> TRUE, error |-> "none",
                                verify_called |-> TRUE,
                                claims |-> verified.payload]
                          ELSE ValidateFailure("Verification error", TRUE)

(***************************** lambdaHandler *******************************)
\* String.prototype.split('/') on the sixth field of the method identifier.
SplitSlash(field) ==
    IF field = "abc/prod/GET/recipes" THEN <<"abc", "prod", "GET", "recipes">>
    ELSE <<field>>

\* validated_decoded_token['cognito:groups'] &&
\* validated_decoded_token['cognito:groups'].includes(admin_group_name)
IsAdmin(claims) ==
    /\ GroupsClaim \in DOMAIN claims
    /\ \E i \in 1..Len(claims[GroupsClaim]) : claims[GroupsClaim][i] = admin_group_name

NoResponse ==
    [principalId |-> "none",
     policyDocument |-> [Version |-> "none", Statement |-> <<>>]]

\* How an invocation ended: the AuthResponse it resolved with, or the message
\* of the Error it rejected with; cause is the caught error (logged only).
Returned(response, fetch, verify_called) ==
    [outcome |-> "response", response |-> response, error |-> "none",
     cause |-> "none", fetch |-> fetch, verify_called |-> verify_called]

\* Mutation: the caught error is rethrown as it is.
Caught_rethrown(cause, fetch, verify_called) ==
    [outcome |-> "error", response |-> NoResponse, error |-> cause,
     cause |-> cause, fetch |-> fetch, verify_called |-> verify_called]

\* catch (err) { console.error(...); throw new Error('Unauthorized'); }
Caught(cause, fetch, verify_called) ==
    [outcome |-> "error", response |-> NoResponse, error |-> "Unauthorized",
     cause |-> cause, fetch |-> fetch, verify_called |-> verify_called]

Pending(fetch) ==
    [outcome |-> "none", response |-> NoResponse, error |-> "none",
     cause |-> "none", fetch |-> fetch, verify_called |-> FALSE]

\* Lines 212-230: the policy built from the validated claims.
Authorize(event, validated, fetch) ==
    LET tmp == event.methodArn
        api_gateway_arn_temp == SplitSlash(tmp[6])
        region == tmp[4]
        aws_account_id == tmp[5]
        principalId == validated.claims.sub
        policy == NewAuthPolicy(principalId, aws_account_id,
                                api_gateway_arn_temp[1], region,
                                api_gateway_arn_temp[2])
        added == IF IsAdmin(validated.claims)
                 THEN allowAllMethods(policy).policy ELSE policy
        built == build(added)
    IN  IF built.ok THEN Returned(built.response, fetch, validated.verify_called)
        ELSE Caught(built.error, fetch, validated.verify_called)

\* Lines 165-230 as one step: the rest of validate_token and of the handler.
Finish(event, obj, fetch) ==
    LET token == event.authorizationToken.rest
        validated == ValidateDecoded(token, event.methodArn[4], obj)
    IN  IF validated.ok THEN Authorize(event, validated, fetch)
        ELSE Caught(validated.error, fetch, validated.verify_called)

\* tmp[5].split('/') throws a TypeError when the identifier has no sixth field.
ArnParses(event) == Len(event.methodArn) >= 6

\* authorizationToken.startsWith('Bearer '); a missing header is undefined,
\* on which startsWith throws a TypeError.
HasBearer(event) ==
    /\ event.authorizationToken.kind = "string"
    /\ event.authorizationToken.prefix = "Bearer "

\* Mutation: the token is handed to validate_token before the scheme check.
Start_validate_first(p, event) ==
    /\ pc[p] \in {"idle", "done"}
    /\ req' = [req EXCEPT ![p] = event]
    /\ UNCHANGED <<is_cold_start, pems>>
    /\ IF ~ArnParses(event)
       THEN /\ pc' = [pc EXCEPT ![p] = "done"]
            /\ res' = [res EXCEPT ![p] = Caught("TypeError", "none", FALSE)]
       ELSE IF is_cold_start
       THEN /\ pc' = [pc EXCEPT ![p] = "fetching"]
            /\ res' = [res EXCEPT ![p] = Pending("pending")]
       ELSE IF ~HasBearer(event)
       THEN /\ pc' = [pc EXCEPT ![p] = "done"]
            /\ res' = [res EXCEPT ![p] =
                          Caught("Bearer is a recommendation in the RFC", "none", FALSE)]
       ELSE /\ pc' = [pc EXCEPT ![p] = "done"]
            /\ res' = [res EXCEPT ![p] = Finish(event, pems, "none")]

\* lambdaHandler up to its first await that yields with shared state pending:
\* parse the method identifier, check the scheme, enter validate_token and,
\* on a cold start, issue the key-set request.
Start(p, event) ==
    /\ pc[p] \in {"idle", "done"}
    /\ req' = [req EXCEPT ![p] = event]
    /\ UNCHANGED <<is_cold_start, pems>>
    /\ IF ~ArnParses(event)
       THEN /\ pc' = [pc EXCEPT ![p] = "done"]
            /\ res' = [res EXCEPT ![p] = Caught("TypeError", "none", FALSE)]
       ELSE IF ~HasBearer(event)
       THEN /\ pc' = [pc EXCEPT ![p] = "done"]
            /\ res' = [res EXCEPT ![p] =
                          Caught(IF event.authorizationToken.kind = "string"
                                 THEN "Bearer is a recommendation in the RFC"
                                 ELSE "TypeError", "none", FALSE)]
       ELSE IF is_cold_start
       THEN /\ pc' = [pc EXCEPT ![p] = "fetching"]
            /\ res' = [res EXCEPT ![p] = Pending("pending")]
       ELSE /\ pc' = [pc EXCEPT ![p] = "done"]
            /\ res' = [res EXCEPT ![p] = Finish(event, pems, "none")]

\* Mutation: a failed fetch is logged and validation goes on.
FetchReturn_swallowed(p, response) ==
    /\ pc[p] = "fetching"
    /\ pc' = [pc EXCEPT ![p] = "done"]
    /\ UNCHANGED req
    /\ IF response.kind # "document"
       THEN /\ res' = [res EXCEPT ![p] = Finish(req[p], pems, response.kind)]
            /\ UNCHANGED <<is_cold_start, pems>>
       ELSE LET populated == PopulatePems(pems, response.keys)
            IN  /\ pems' = populated.pems
                /\ IF populated.ok
                   THEN /\ is_cold_start' = FALSE
                        /\ res' = [res EXCEPT ![p] =
                                      Finish(req[p], populated.pems, "ok")]
                   ELSE /\ UNCHANGED is_cold_start
                        /\ res' = [res EXCEPT ![p] =
                                      Finish(req[p], populated.pems, "bad_key")]

\* Mutation: a failed fetch marks the cache cold.
FetchReturn_recooled(p, response) ==
    /\ pc[p] = "fetching"
    /\ pc' = [pc EXCEPT ![p] = "done"]
    /\ UNCHANGED req
    /\ IF response.kind # "document"
       THEN /\ res' = [res EXCEPT ![p] = Caught("AxiosError", response.kind, FALSE)]
            /\ is_cold_start' = TRUE
            /\ UNCHANGED pems
       ELSE LET populated == PopulatePems(pems, response.keys)
            IN  /\ pems' = populated.pems
                /\ IF populated.ok
                   THEN /\ is_cold_start' = FALSE
                        /\ res' = [res EXCEPT ![p] =
                                      Finish(req[p], populated.pems, "ok")]
                   ELSE /\ is_cold_start' = TRUE
                        /\ res' = [res EXCEPT ![p] =
                                      Caught("AxiosError", "bad_key", FALSE)]

\* Mutation: the flag is flipped where it should be cleared.
FetchReturn_toggled(p, response) ==
    /\ pc[p] = "fetching"
    /\ pc' = [pc EXCEPT ![p] = "done"]
    /\ UNCHANGED req
    /\ IF response.kind # "document"
       THEN /\ res' = [res EXCEPT ![p] = Caught("AxiosError", response.kind, FALSE)]
            /\ UNCHANGED <<is_cold_start, pems>>
       ELSE LET populated == PopulatePems(pems, response.keys)
            IN  /\ pems' = populated.pems
                /\ IF populated.ok
                   THEN /\ is_cold_start' = ~is_cold_start
                        /\ res' = [res EXCEPT ![p] =
                                      Finish(req[p], populated.pems, "ok")]
                   ELSE /\ UNCHANGED is_cold_start
                        /\ res' = [res EXCEPT ![p] =
                                      Caught("AxiosError", "bad_key", FALSE)]

\* The continuation of `await axios.get(keys_url)`: lines 150-164, then the
\* rest of the request.
FetchReturn(p, response) ==
    /\ pc[p] = "fetching"
    /\ pc' = [pc EXCEPT ![p] = "done"]
    /\ UNCHANGED req
    /\ IF response.kind # "document"
       THEN /\ res' = [res EXCEPT ![p] = Caught("AxiosError", response.kind, FALSE)]
            /\ UNCHANGED <<is_cold_start, pems>>
       ELSE LET populated == PopulatePems(pems, response.keys)
            IN  /\ pems' = populated.pems
                /\ IF populated.ok
                   THEN /\ is_cold_start' = FALSE
                        /\ res' = [res EXCEPT ![p] =
                                      Finish(req[p], populated.pems, "ok")]
                   ELSE /\ UNCHANGED is_cold_start
                        /\ res' = [res EXCEPT ![p] =
                                      Caught("AxiosError", "bad_key", FALSE)]

(****************************** requests ***********************************)
\* The region the function is deployed in: the region of every method
\* identifier the gateway of that deployment sends.  Tokens may name the
\* issuer of any region.
DeployedRegions == {"us-east-1"}

AccountId == "123456789012"

MethodArn(region) ==
    <<"arn", "aws", "execute-api", region, AccountId, "abc/prod/GET/recipes">>

Groups == {<<>>, <<"users">>, <<"users", admin_group_name>>}

AllTokens ==
    {Token(kid, Issuer(region), token_use, aud, exp, has_groups, groups, signed_by) :
        kid \in Kids \cup ObjectPrototypeKeys, region \in Regions,
        token_use \in {"access", "id"}, aud \in {app_client_id, "client-2"},
        exp \in {"future", "past"}, has_groups \in BOOLEAN, groups \in Groups,
        signed_by \in Kids \cup {"forged"}}

\* The access token the provider of a region issues to an administrator.
AdminToken(region) ==
    Token("k1", Issuer(region), "access", app_client_id, "future", TRUE,
          <<"users", admin_group_name>>, "k1")

Bool2Nat(b) == IF b THEN 1 ELSE 0

\* The number of fields in which two well-formed tokens differ.
Deviation(t, u) ==
    Bool2Nat(t.header.kid # u.header.kid)
    + Bool2Nat(t.payload.iss # u.payload.iss)
    + Bool2Nat(t.payload.token_use # u.payload.token_use)
    + Bool2Nat(t.payload.aud # u.payload.aud)
    + Bool2Nat(t.payload.exp # u.payload.exp)
    + Bool2Nat(DOMAIN t.payload # DOMAIN u.payload
               \/ (GroupsClaim \in DOMAIN t.payload /\ GroupsClaim \in DOMAIN u.payload
                   /\ t.payload[GroupsClaim] # u.payload[GroupsClaim]))
    + Bool2Nat(t.signed_by # u.signed_by)

Tokens ==
    {MalformedToken}
    \cup {t \in AllTokens :
            \E region \in DeployedRegions :
                Deviation(t, AdminToken(region)) <= MaxDeviation}

Headers ==
    {[kind |-> "string", prefix |-> "Bearer ", rest |-> t] : t \in Tokens}
    \cup {[kind |-> "string", prefix |-> prefix, rest |-> AdminToken(region)] :
            prefix \in {"", "Basic "}, region \in DeployedRegions}
    \cup {[kind |-> "undefined", prefix |-> "", rest |-> MalformedToken]}

\* Every header with every well-formed method identifier; a method identifier
\* without a sixth field with a valid and with a missing header.
Events ==
    {[methodArn |-> MethodArn(region), authorizationToken |-> header] :
        region \in DeployedRegions, header \in Headers}
    \cup {[methodArn |-> <<"not-an-arn">>, authorizationToken |-> header] :
            header \in {h \in Headers : h.kind = "undefined"
                                          \/ h.rest \in {AdminToken(r) : r \in DeployedRegions}}}

NoEvent ==
    [methodArn |-> <<>>,
     authorizationToken |-> [kind |-> "undefined", prefix |-> "", rest |-> MalformedToken]]

(*************************** specifications ********************************)
\* No key set is fixed for the run: a fetch may return any response.
Unfixed == [fixed |-> FALSE, keys |-> <<>>]

\* The builder of a request of user-1 to the deployed api, before any call.
FreshPolicy == NewAuthPolicy("user-1", AccountId, "abc", "us-east-1", "prod")

NoCall ==
    [op |-> "none", verb |-> "", resource |-> <<>>, ok |-> TRUE, error |-> "none",
     response |-> NoResponse]

\* Module load (lines 6-7), no invocation yet.
ProcessStart ==
    /\ is_cold_start = TRUE
    /\ pems = <<>>
    /\ pc = [p \in Procs |-> "idle"]
    /\ req = [p \in Procs |-> NoEvent]
    /\ res = [p \in Procs |-> Pending("none")]

BuilderStart ==
    /\ builder = FreshPolicy
    /\ calls = <<>>
    /\ last = NoCall

Init ==
    /\ ProcessStart
    /\ published = Unfixed
    /\ BuilderStart

\* What the fetch of key set of issuer iss can return in this run.
ResponsesNow(iss) ==
    IF published.fixed
    THEN {[kind |-> "document", keys |-> published.keys]}
    ELSE Responses(iss)

\* Requests handled one after the other by one process (one invocation at a
\* time, as a Lambda execution environment does).
Request ==
    /\ \E event \in Events : Start(1, event)
    /\ UNCHANGED outside

KeySetResponse ==
    /\ pc[1] = "fetching"
    /\ \E response \in ResponsesNow(Issuer(req[1].methodArn[4])) : FetchReturn(1, response)
    /\ UNCHANGED outside

Next ==
    \/ Request
    \/ KeySetResponse

Spec == Init /\ [][Next]_vars

(********************** overlapping invocations ****************************)
\* The tokens of the requests that overlap: an administrator's under either
\* key, a forged one and a malformed one.
SecondKeyToken ==
    Token("k2", Issuer("us-east-1"), "access", app_client_id, "future", TRUE,
          <<"users", admin_group_name>>, "k2")

ForgedToken ==
    Token("k1", Issuer("us-east-1"), "access", app_client_id, "future", TRUE,
          <<"users", admin_group_name>>, "forged")

ConcurrentEvents ==
    {[methodArn |-> MethodArn(region),
      authorizationToken |-> [kind |-> "string", prefix |-> "Bearer ", rest |-> t]] :
        region \in DeployedRegions,
        t \in {AdminToken("us-east-1"), SecondKeyToken, ForgedToken, MalformedToken}}

\* Any idle invocation takes up a request while others await their fetch.
ConcurrentRequest ==
    /\ \E p \in Procs : \E event \in ConcurrentEvents : Start(p, event)
    /\ UNCHANGED outside

\* The responses arrive in any order.
ConcurrentKeySetResponse ==
    /\ \E p \in Procs :
          /\ pc[p] = "fetching"
          /\ \E response \in ResponsesNow(Issuer(req[p].methodArn[4])) :
                FetchReturn(p, response)
    /\ UNCHANGED outside

NextConcurrent ==
    \/ ConcurrentRequest
    \/ ConcurrentKeySetResponse

SpecConcurrent == Init /\ [][NextConcurrent]_vars

\* The key-set documents without malformed entries.
KeySetDocuments(iss) ==
    SeqsUpTo({Jwk(iss, kid, "RSA") : kid \in Kids}, MaxKeys)

\* Every fetch of the run returns the same key set.
InitSameKeySet ==
    /\ ProcessStart
    /\ published \in {[fixed |-> TRUE, keys |-> ks] :
                        ks \in UNION {KeySetDocuments(Issuer(r)) : r \in DeployedRegions}}
    /\ BuilderStart

SpecSameKeySet == InitSameKeySet /\ [][NextConcurrent]_vars

(************************* a silent endpoint *******************************)
\* The discovery endpoint accepts the request of line 149 and never answers.
\* axios.get(keys_url) is called without a timeout option, and the axios
\* default is no timeout: the promise stays pending and nothing in the code
\* settles it.
NoAnswer ==
    /\ pc[1] = "fetching"
    /\ pc' = [pc EXCEPT ![1] = "unanswered"]
    /\ UNCHANGED <<is_cold_start, pems, req, res>>
    /\ UNCHANGED outside

NextSilent ==
    \/ Request
    \/ KeySetResponse
    \/ NoAnswer

\* The event loop runs the continuation of an await whose promise settles.
SpecSilent == Init /\ [][NextSilent]_vars /\ WF_vars(KeySetResponse)

(********************* requests of several regions *************************)
\* One process receives method identifiers of both regions, each with the
\* administrator token of either region's provider.
RegionEvents ==
    {[methodArn |-> MethodArn(region),
      authorizationToken |->
          [kind |-> "string", prefix |-> "Bearer ", rest |-> AdminToken(issuing)]] :
        region \in Regions, issuing \in Regions}

RegionRequest ==
    /\ \E event \in RegionEvents : Start(1, event)
    /\ UNCHANGED outside

NextRegions ==
    \/ RegionRequest
    \/ KeySetResponse

SpecRegions == Init /\ [][NextRegions]_vars

(************************* building a policy *******************************)
\* Arguments (verb, resource) of the add methods: a verb with a path, the
\* wildcards, the name of the wildcard's key in HttpVerb, a string that is
\* neither a verb nor a key, and a path with a character outside the class of
\* pathRegex.
MethodArguments ==
    {<<"GET", <<"/", "a">>>>,
     <<"*", <<"*">>>>,
     <<"ALL", <<"/", "a">>>>,
     <<"get", <<"/", "a">>>>,
     <<"GET", <<"a", "?">>>>}

\* Condition arguments: none, and two condition blocks.
SourceIp == [kind |-> "object", operator |-> "IpAddress", key |-> "aws:SourceIp"]
SecureTransport == [kind |-> "object", operator |-> "Bool", key |-> "aws:SecureTransport"]

ConditionArguments == {Undefined, SourceIp, SecureTransport}

\* A public method of AuthPolicy was called with these arguments and threw
\* (added.ok false) or returned, leaving the builder as added.policy.
Called(method, effect, verb, resource, conditions, added) ==
    /\ Len(calls) < MaxRules
    /\ builder' = added.policy
    /\ calls' = IF added.ok
                THEN Append(calls, [method |-> method, effect |-> effect, verb |-> verb,
                                    resource |-> resource, conditions |-> conditions])
                ELSE calls
    /\ last' = [op |-> method, verb |-> verb, resource |-> resource,
                ok |-> added.ok, error |-> added.error, response |-> NoResponse]
    /\ UNCHANGED process

AllowAllMethods ==
    Called("allowAllMethods", "Allow", "", <<>>, Undefined, allowAllMethods(builder))

DenyAllMethods ==
    Called("denyAllMethods", "Deny", "", <<>>, Undefined, denyAllMethods(builder))

AllowMethod ==
    \E arguments \in MethodArguments :
        Called("allowMethod", "Allow", arguments[1], arguments[2], Undefined,
               allowMethod(builder, arguments[1], arguments[2]))

DenyMethod ==
    \E arguments \in MethodArguments :
        Called("denyMethod", "Deny", arguments[1], arguments[2], Undefined,
               denyMethod(builder, arguments[1], arguments[2]))

AllowMethodWithConditions ==
    \E arguments \in MethodArguments, conditions \in ConditionArguments :
        Called("allowMethodWithConditions", "Allow", arguments[1], arguments[2], conditions,
               allowMethodWithConditions(builder, arguments[1], arguments[2], conditions))

DenyMethodWithConditions ==
    \E arguments \in MethodArguments, conditions \in ConditionArguments :
        Called("denyMethodWithConditions", "Deny", arguments[1], arguments[2], conditions,
               denyMethodWithConditions(builder, arguments[1], arguments[2], conditions))

BuildPolicy ==
    LET built == build(builder)
    IN  /\ last' = [op |-> "build", verb |-> "", resource |-> <<>>,
                    ok |-> built.ok, error |-> built.error,
                    response |-> IF built.ok THEN built.response ELSE NoResponse]
        /\ UNCHANGED <<builder, calls>>
        /\ UNCHANGED process

NextBuilder ==
    \/ AllowAllMethods
    \/ DenyAllMethods
    \/ AllowMethod
    \/ DenyMethod
    \/ AllowMethodWithConditions
    \/ DenyMethodWithConditions
    \/ BuildPolicy

SpecBuilder == Init /\ [][NextBuilder]_vars

(************************ vocabulary of the properties *********************)
Done(p) == pc[p] = "done"

TokenOf(event) == event.authorizationToken.rest

RegionOf(event) == event.methodArn[4]

\* The request gets as far as validate_token.
ReachesValidate(event) == ArnParses(event) /\ HasBearer(event)

\* Steps 1-3 of validate, as the specification states them.
Structured(event) == TokenOf(event).wellformed

IssuerMatches(event) == TokenOf(event).payload.iss = Issuer(RegionOf(event))

IsAccessToken(event) == TokenOf(event).payload.token_use = "access"

PassesSteps123(event) ==
    Structured(event) /\ IssuerMatches(event) /\ IsAccessToken(event)

\* Step 4: the key identifier of the header is an entry of the cached key set.
KeyIsCached(event) == TokenOf(event).header.kid \in DOMAIN pems

\* Step 5: signed by the provider key cached under that identifier, not
\* expired, issued for the configured client.
SignatureAndClaimsValid(event) ==
    LET t == TokenOf(event)
    IN  /\ t.signed_by \in Kids
        /\ pems[t.header.kid].modulus = Modulus(t.payload.iss, t.signed_by)
        /\ t.payload.exp = "future"
        /\ t.payload.aud = app_client_id

\* The request of p passed the scheme check and all five gates (the key set
\* having been loaded, by this request or before it).
PassedAllGates(p) ==
    /\ Done(p)
    /\ res[p].fetch \in {"none", "ok"}
    /\ ReachesValidate(req[p])
    /\ PassesSteps123(req[p])
    /\ KeyIsCached(req[p])
    /\ SignatureAndClaimsValid(req[p])

HasAdminGroup(event) ==
    LET payload == TokenOf(event).payload
    IN  /\ GroupsClaim \in DOMAIN payload
        /\ admin_group_name \in {payload[GroupsClaim][i] : i \in 1..Len(payload[GroupsClaim])}

Statements(p) == res[p].response.policyDocument.Statement

Effects(p) == {Statements(p)[i].Effect : i \in 1..Len(Statements(p))}

\* A step in which invocation p takes up a request (the event is req'[p]).
Begins(p) ==
    /\ pc[p] # "fetching"
    /\ <<pc[p], req[p], res[p]>> # <<pc'[p], req'[p], res'[p]>>

\* The error of the first of steps 1-3 that the token fails.
StepError(event) ==
    IF ~Structured(event) THEN "Invalid JWT token"
    ELSE IF ~IssuerMatches(event) THEN "Invalid issuer"
    ELSE "not an access token"

(******************************** claims ***********************************)
\* C1: a request with the Bearer scheme whose token passes all five gates
\* but carries no admin group (or no group list) gets a decision, with a
\* non-empty statement list of Deny statements only.
C1_NonAdminGetsDenyDecision ==
    \A p \in Procs :
        (PassedAllGates(p) /\ ~HasAdminGroup(req[p]))
            => /\ res[p].outcome = "response"
               /\ Statements(p) # <<>>
               /\ Effects(p) = {"Deny"}

\* The statement lambdaHandler is to return for an administrator: the wildcard
\* verb and path under the api and stage of the request's method identifier.
AdminStatement(event) ==
    [Action |-> "execute-api:Invoke", Effect |-> "Allow",
     Resource |-> <<[prefix |-> "arn:aws:execute-api", region |-> event.methodArn[4],
                     account |-> event.methodArn[5], api |-> "abc",
                     stage |-> "prod", verb |-> "*", path |-> <<"*">>]>>]

\* C2: a request whose token passes all five gates and carries the admin
\* group gets a decision whose principal is the token's subject and whose
\* statements are exactly one Allow statement with the single wildcard
\* resource of the request's api and stage, and no Deny statement.
C2_AdminGetsAllowAll ==
    \A p \in Procs :
        (PassedAllGates(p) /\ HasAdminGroup(req[p]))
            => /\ res[p].outcome = "response"
               /\ res[p].response.principalId = TokenOf(req[p]).payload.sub
               /\ res[p].response.policyDocument.Version = "2012-10-17"
               /\ Statements(p) = <<AdminStatement(req[p])>>

C2_Witness ==
    \E p \in Procs :
        /\ PassedAllGates(p) /\ HasAdminGroup(req[p])
        /\ res[p].outcome = "response"
        /\ res[p].fetch = "none"
        /\ TokenOf(req[p]).header.kid = "k2"

\* C3: a decision with an Allow statement is returned only for a request with
\* the Bearer scheme whose token passed all five gates and whose verified
\* claims contain the admin group.
C3_AllowOnlyForVerifiedAdmin ==
    \A p \in Procs :
        (Done(p) /\ res[p].outcome = "response" /\ "Allow" \in Effects(p))
            => /\ PassedAllGates(p)
               /\ HasAdminGroup(req[p])
               /\ res[p].verify_called

C3_Witness ==
    \E p \in Procs :
        /\ Done(p) /\ res[p].outcome = "response" /\ "Allow" \in Effects(p)
        /\ res[p].fetch = "ok"

\* The errors that can be caught at the boundary of lambdaHandler.
FailureKinds ==
    {"TypeError", "Bearer is a recommendation in the RFC", "AxiosError",
     "Invalid JWT token", "Invalid issuer", "not an access token",
     "invalid access token", "Verification error",
     "No statements defined for the policy"}

\* C4: every invocation ends either with a decision document or with the one
\* error Unauthorized, whatever failed inside; no other error leaves the
\* handler and the error carries no decision.
C4_DecisionOrUnauthorized ==
    \A p \in Procs :
        Done(p) =>
            \/ /\ res[p].outcome = "response"
               /\ res[p].error = "none" /\ res[p].cause = "none"
            \/ /\ res[p].outcome = "error"
               /\ res[p].error = "Unauthorized"
               /\ res[p].cause \in FailureKinds
               /\ res[p].response = NoResponse

C4_Witness ==
    \E p \in Procs :
        /\ Done(p) /\ res[p].outcome = "error"
        /\ res[p].cause = "Verification error"
        /\ res[p].error = "Unauthorized"

\* C5: a request whose header does not start with "Bearer " fails with
\* Unauthorized in the step that takes it up, cold cache or loaded, without
\* a key-set fetch and with the cold-start flag and the key set unchanged.
C5_SchemeCheckBeforeFetch ==
    [][\A p \in Procs :
          (Begins(p) /\ ~HasBearer(req'[p]))
              => /\ pc'[p] = "done"
                 /\ res'[p].outcome = "error"
                 /\ res'[p].error = "Unauthorized"
                 /\ res'[p].fetch = "none"
                 /\ is_cold_start' = is_cold_start
                 /\ pems' = pems]_vars

C5_Witness ==
    \E p \in Procs :
        /\ Done(p) /\ ArnParses(req[p]) /\ ~HasBearer(req[p])
        /\ req[p].authorizationToken.kind = "string"
        /\ is_cold_start
        /\ res[p].error = "Unauthorized"

\* C6 as claimed: a token that fails step 1, 2 or 3 fails with that step's
\* own error in every cache state and no key-set fetch is issued for it.
C6_NoFetchBeforeStep4 ==
    \A p \in Procs :
        (Done(p) /\ ReachesValidate(req[p]) /\ ~PassesSteps123(req[p]))
            => /\ res[p].cause = StepError(req[p])
               /\ res[p].fetch = "none"

\* C6 as the code has it: the key-set fetch comes before step 1 whenever the
\* cache is cold.  For a token that fails step 1, 2 or 3: with a loaded cache
\* no fetch is issued and the request fails with that step's own error; with
\* a cold cache a fetch is issued first, and the request fails with the
\* step's error if the fetch succeeds and with the key-fetch error otherwise.
\* Signature verification is not invoked in either case.
C6_FailedStepOutcome ==
    \A p \in Procs :
        (Done(p) /\ ReachesValidate(req[p]) /\ ~PassesSteps123(req[p]))
            => /\ res[p].outcome = "error"
               /\ ~res[p].verify_called
               /\ res[p].fetch \in {"none", "ok"} => res[p].cause = StepError(req[p])
               /\ res[p].fetch \notin {"none", "ok"} => res[p].cause = "AxiosError"

C6_FetchIffCold ==
    \A p \in Procs :
        (Begins(p) /\ ReachesValidate(req'[p]) /\ ~PassesSteps123(req'[p]))
            => IF is_cold_start
               THEN pc'[p] = "fetching" /\ res'[p].fetch = "pending"
               ELSE pc'[p] = "done" /\ res'[p].fetch = "none"

C6_FetchPrecedesStep1 == []C6_FailedStepOutcome /\ [][C6_FetchIffCold]_vars

C6_Witness ==
    \E p \in Procs :
        /\ Done(p) /\ ReachesValidate(req[p]) /\ ~Structured(req[p])
        /\ res[p].fetch = "bad_key"
        /\ res[p].cause = "AxiosError"

\* The lookup pems[kid] of line 182 yields a value for the request's token.
LookupYieldsValue(event) ==
    GetProperty(pems, TokenOf(event).header.kid).kind # "undefined"

\* The error the gates of validate give a token when they are applied in the
\* order structure, issuer, token purpose, key lookup, verification.
FirstFailingGate(event) ==
    IF ~PassesSteps123(event) THEN StepError(event)
    ELSE IF ~LookupYieldsValue(event) THEN "invalid access token"
    ELSE "Verification error"

C8_UnknownKeyRejectedWithoutVerify ==
    \A p \in Procs :
        (/\ Done(p) /\ ~is_cold_start /\ res[p].fetch = "none"
         /\ ReachesValidate(req[p]) /\ PassesSteps123(req[p])
         /\ ~KeyIsCached(req[p]))
            => /\ res[p].cause = "invalid access token"
               /\ ~res[p].verify_called

\* C9: when the key-set fetch of a cold-start request fails (network failure,
\* unusable body or a malformed entry), the request fails, the cache is empty
\* afterwards and still cold.
C9_FailedFetchLeavesCacheEmpty ==
    \A p \in Procs :
        (Done(p) /\ res[p].fetch \in {"network_error", "bad_body", "bad_key"})
            => /\ res[p].outcome = "error"
               /\ DOMAIN pems = {}
               /\ is_cold_start

\* C10: the process-wide key set is written exactly once: a step that
\* changes it finds it as it was at process start, never written before, and
\* once a fetch has succeeded no request fetches or writes again.
C10_KeySetWrittenOnce ==
    [][/\ pems' # pems => DOMAIN pems = {}
       /\ ~is_cold_start
             => /\ pems' = pems /\ ~is_cold_start'
                /\ \A p \in Procs : pc'[p] # "fetching"]_vars

\* The key set of a document: per key identifier the key of its last entry.
LastEntry(keys, kid) ==
    keys[CHOOSE i \in 1..Len(keys) :
            /\ keys[i].kid = kid
            /\ \A j \in (i + 1)..Len(keys) : keys[j].kid # kid]

KeySetOf(keys) ==
    [kid \in {keys[i].kid : i \in 1..Len(keys)} |->
        [kind |-> "pem", modulus |-> LastEntry(keys, kid).n,
         exponent |-> LastEntry(keys, kid).e]]

CacheEquals(keyset) ==
    /\ DOMAIN pems = DOMAIN keyset
    /\ \A kid \in DOMAIN keyset : pems[kid] = keyset[kid]

\* How a request ends when it runs alone against the cache loaded with the
\* published key set.
AloneLoaded(event) == Finish(event, KeySetOf(published.keys), "none")

SameOutcome(r1, r2) ==
    /\ r1.outcome = r2.outcome
    /\ r1.response = r2.response
    /\ r1.error = r2.error
    /\ r1.cause = r2.cause

\* C11: requests that start while the cache is cold each issue their own
\* fetch; when all fetches return the same key set, then in every
\* interleaving of the fetches and the populate steps each request ends as
\* it would have ended alone against the loaded cache, and once no fetch is
\* in flight the cache is loaded and equals that key set.
C11_RacingColdStartsAgree ==
    /\ \A p \in Procs :
          (Done(p) /\ ReachesValidate(req[p]))
              => SameOutcome(res[p], AloneLoaded(req[p]))
    /\ ((\A p \in Procs : pc[p] # "fetching") /\ (\E p \in Procs : Done(p)))
          => ~is_cold_start /\ CacheEquals(KeySetOf(published.keys))

C11_Witness ==
    /\ \A p \in Procs : Done(p) /\ res[p].fetch = "ok"
    /\ \E p, q \in Procs : res[p].outcome = "response" /\ res[q].outcome = "error"
    /\ Len(published.keys) = 2 /\ published.keys[1].kid # published.keys[2].kid

\* C12: every request eventually completes, with a decision or with
\* Unauthorized, also when the discovery endpoint never responds.
C12_EveryRequestCompletes ==
    \A p \in Procs : (pc[p] \in {"fetching", "unanswered"}) ~> (pc[p] = "done")

\* The issuer whose discovery endpoint served a cached key.
IssuerOfKey(pem) ==
    [scheme |-> "https://cognito-idp", region |-> pem.modulus[1], pool |-> pem.modulus[2]]

\* C18: every key used to verify a token against the expected issuer of a
\* request was fetched from the discovery endpoint of that issuer, also when
\* one process handles requests of different regions.
C18_KeyFromExpectedIssuer ==
    \A p \in Procs :
        (Done(p) /\ res[p].verify_called /\ KeyIsCached(req[p]))
            => IssuerOfKey(pems[TokenOf(req[p]).header.kid]) = Issuer(RegionOf(req[p]))

\* C19: the cache state only grows, in any sequence or interleaving of
\* requests: the cold-start flag never returns to true once it is false and
\* no key identifier leaves the cached key set.
C19_CacheMonotonic ==
    [][/\ ~is_cold_start => ~is_cold_start'
       /\ DOMAIN pems \subseteq DOMAIN pems']_vars

C19_Witness ==
    /\ ~is_cold_start
    /\ DOMAIN pems = Kids
    /\ \E p, q \in Procs :
          /\ Done(p) /\ res[p].fetch = "ok"
          /\ Done(q) /\ res[q].fetch \in {"network_error", "bad_key"}

(*************************** the built decision ****************************)
AddMethods ==
    {"allowMethod", "denyMethod", "allowMethodWithConditions", "denyMethodWithConditions"}

\* build was the last call on the builder, and it returned / it threw.
Built == last.op = "build" /\ last.ok

BuildFailed == last.op = "build" /\ ~last.ok

BuiltStatements == last.response.policyDocument.Statement

\* C13: build throws 'No statements defined for the policy' exactly when no
\* add call ever returned on the builder, and a decision that build returns
\* has at least one statement.
C13_BuildFailsIffNoRule ==
    /\ last.op = "build" => (~last.ok <=> calls = <<>>)
    /\ BuildFailed => last.error = "No statements defined for the policy"
    /\ Built => Len(BuiltStatements) >= 1

\* build returned a decision for a builder holding rules of one effect only.
C13_Witness ==
    /\ Built
    /\ Len(calls) = MaxRules
    /\ \A i \in DOMAIN calls : calls[i].effect = "Deny"
    /\ Len(BuiltStatements) >= 1

\* The verbs a rule may name.
NamedVerbs == {"GET", "POST", "PUT", "PATCH", "DELETE", "HEAD", "OPTIONS", "*"}

\* C14: an add call whose verb is none of GET, POST, PUT, PATCH, DELETE, HEAD,
\* OPTIONS, '*' throws the invalid-verb error, one whose non-empty path has a
\* character outside the path pattern throws the invalid-path error, and the
\* buckets hold exactly the rules of the add calls that returned.
C14_InvalidRuleRejected ==
    /\ last.op \in AddMethods =>
          /\ last.verb \notin NamedVerbs
                => ~last.ok /\ last.error = "Invalid HTTP verb"
          /\ (/\ last.verb \in NamedVerbs
              /\ Len(last.resource) > 0
              /\ ~MatchesPathRegex(last.resource))
                => ~last.ok /\ last.error = "Invalid resource path"
    /\ Len(builder.allowMethods) + Len(builder.denyMethods) = Len(calls)

\* What the calls that returned asked for.
AllMethods == {"allowAllMethods", "denyAllMethods"}

CallConditioned(call) ==
    /\ call.method \in {"allowMethodWithConditions", "denyMethodWithConditions"}
    /\ call.conditions.kind = "object"

CallUnconditioned(call) == ~CallConditioned(call)

WildcardArn == ResourceArn(builder, "*", <<"*">>)

RuleArn(call) ==
    IF call.method \in AllMethods
    THEN WildcardArn
    ELSE ResourceArn(builder, call.verb, StripLeadingSlash(call.resource))

CallsOf(effect) == SelectSeq(calls, LAMBDA call : call.effect = effect)

\* What the built decision says.
IsConditioned(statement) == "Condition" \in DOMAIN statement

IsMerged(statement) == ~IsConditioned(statement)

StatementsOf(effect) == SelectSeq(BuiltStatements, LAMBDA statement : statement.Effect = effect)

\* The statements of one effect: the conditioned rules one by one in insertion
\* order, then the statement of the unconditioned rules in insertion order.
RenderedInOrder(effect) ==
    LET conditioned == SelectSeq(StatementsOf(effect), IsConditioned)
        merged == SelectSeq(StatementsOf(effect), IsMerged)
        with == SelectSeq(CallsOf(effect), CallConditioned)
        without == SelectSeq(CallsOf(effect), CallUnconditioned)
    IN  /\ Len(conditioned) = Len(with)
        /\ \A i \in DOMAIN conditioned :
              /\ conditioned[i].Resource = <<RuleArn(with[i])>>
              /\ conditioned[i].Condition = with[i].conditions
        /\ Len(merged) <= 1
        /\ without # <<>> => Len(merged) = 1
        /\ merged # <<>> =>
              /\ merged[1].Resource = [i \in 1..Len(without) |-> RuleArn(without[i])]
              /\ StatementsOf(effect)[Len(StatementsOf(effect))] = merged[1]

\* C15: the built decision lists every Allow statement before every Deny
\* statement, and within an effect each conditioned rule is a statement of its
\* own with its condition block, in insertion order, followed by the statement
\* that lists the unconditioned rules in insertion order.
C15_StatementOrder ==
    Built =>
        /\ \A i, j \in DOMAIN BuiltStatements :
              i < j => ~(BuiltStatements[i].Effect = "Deny"
                         /\ BuiltStatements[j].Effect = "Allow")
        /\ RenderedInOrder("Allow")
        /\ RenderedInOrder("Deny")

\* One unconditioned and then one conditioned Allow rule, built: two Allow
\* statements, the conditioned one first.
C15_Witness ==
    /\ Built
    /\ Len(calls) = 2
    /\ calls[1].effect = "Allow" /\ CallUnconditioned(calls[1])
    /\ calls[2].effect = "Allow" /\ CallConditioned(calls[2])
    /\ Len(BuiltStatements) = 2
    /\ IsConditioned(BuiltStatements[1])
    /\ BuiltStatements[1].Condition = calls[2].conditions
    /\ IsMerged(BuiltStatements[2])

\* C16: every statement of a built decision lists at least one resource.
C16_EveryStatementListsAResource ==
    Built => \A i \in DOMAIN BuiltStatements : Len(BuiltStatements[i].Resource) >= 1

\* The rules a built decision renders under an effect, with multiplicity: per
\* resource identifier and condition block the number of places listing it.
RenderedPlaces(effect) ==
    {place \in UNION {{<<i, j>> : j \in DOMAIN BuiltStatements[i].Resource} :
                        i \in DOMAIN BuiltStatements} :
        BuiltStatements[place[1]].Effect = effect}

RenderedRule(place) ==
    LET statement == BuiltStatements[place[1]]
    IN  [arn |-> statement.Resource[place[2]],
         condition |-> IF IsConditioned(statement) THEN statement.Condition
                       ELSE Undefined]

RenderedRules(effect) ==
    [rule \in {RenderedRule(place) : place \in RenderedPlaces(effect)} |->
        Cardinality({place \in RenderedPlaces(effect) : RenderedRule(place) = rule})]

\* The rules added under an effect, with multiplicity.
AddedRule(call) ==
    [arn |-> RuleArn(call),
     condition |-> IF CallConditioned(call) THEN call.conditions ELSE Undefined]

AddedRules(effect) ==
    LET added == {i \in DOMAIN calls : calls[i].effect = effect}
    IN  [rule \in {AddedRule(calls[i]) : i \in added} |->
            Cardinality({i \in added : AddedRule(calls[i]) = rule})]

\* C17: the resource identifiers across the Allow statements of a built
\* decision are those added with effect Allow, each as often as it was added
\* and each conditioned one under its own condition block; likewise for Deny.
C17_RenderingConservesRules ==
    Built => /\ RenderedRules("Allow") = AddedRules("Allow")
             /\ RenderedRules("Deny") = AddedRules("Deny")

\* A decision built after the same conditioned rule was added twice.
C17_Witness ==
    /\ Built
    /\ \E i, j \in DOMAIN calls :
          /\ i < j /\ calls[i] = calls[j] /\ CallConditioned(calls[i])
    /\ Len(BuiltStatements) = 3

\* The resource identifiers stored in the two buckets.
StoredArns(policy) ==
    [allow |-> [i \in DOMAIN policy.allowMethods |-> policy.allowMethods[i].resource_arn],
     deny |-> [i \in DOMAIN policy.denyMethods |-> policy.denyMethods[i].resource_arn]]

\* The number of places of the merged / conditioned statements of an effect
\* that list the wildcard resource identifier.
WildcardPlaces(effect, conditioned) ==
    Cardinality({place \in RenderedPlaces(effect) :
                    /\ RenderedRule(place).arn = WildcardArn
                    /\ IsConditioned(BuiltStatements[place[1]]) = conditioned})

WildcardCalls(effect, conditioned) ==
    Cardinality({i \in DOMAIN calls :
                    /\ calls[i].effect = effect
                    /\ RuleArn(calls[i]) = WildcardArn
                    /\ CallConditioned(calls[i]) = conditioned})

AllRenderedMerged ==
    Built =>
        \A i \in DOMAIN calls :
            calls[i].method \in AllMethods =>
                /\ WildcardPlaces(calls[i].effect, FALSE)
                      = WildcardCalls(calls[i].effect, FALSE)
                /\ WildcardPlaces(calls[i].effect, TRUE)
                      = WildcardCalls(calls[i].effect, TRUE)

\* C20: a call of allowAllMethods / denyAllMethods leaves in the buckets the
\* resource identifiers that addMethod(effect, '*', '*') without conditions
\* leaves from the same builder, and a built decision lists the rule of such a
\* call in the merged statement of its effect, not in a conditioned one.
C20_AllIsWildcardAdd ==
    [][/\ (last'.op = "allowAllMethods" /\ calls' # calls)
            => StoredArns(builder')
                 = StoredArns(addMethod(builder, "Allow", "*", <<"*">>, Undefined).policy)
       /\ (last'.op = "denyAllMethods" /\ calls' # calls)
            => StoredArns(builder')
                 = StoredArns(addMethod(builder, "Deny", "*", <<"*">>, Undefined).policy)
       /\ AllRenderedMerged']_vars

\* A decision built from allowAllMethods and a conditioned Allow rule on the
\* same resource identifier.
C20_Witness ==
    /\ Built
    /\ \E i, j \in DOMAIN calls :
          /\ calls[i].method = "allowAllMethods"
          /\ calls[j].effect = "Allow"
          /\ CallConditioned(calls[j])
          /\ RuleArn(calls[j]) = WildcardArn

====
